---- MODULE Spec2Model ----
(***************************************************************************)
(* Tube-bending calculator (src/app.py): the material table, the parameter *)
(* engine compute_bend_parameters and the report generate_pdf_report.      *)
(*                                                                         *)
(* The engine works on Python floats, i.e. IEEE-754 binary64 values with   *)
(* round-to-nearest-even.  They are modelled bit for bit: a float is       *)
(*   [k |-> "fin", s |-> sign, m |-> mantissa, e |-> exponent]             *)
(* of value (-1)^s * m * 2^e, or [k |-> "inf", s |-> sign], or             *)
(* [k |-> "nan"].  A mantissa needs 53 bits, so it is an arbitrary-size    *)
(* natural number: a little-endian sequence of 15-bit limbs without        *)
(* leading zero limbs (<<>> is 0, <<5>> is 5, <<0, 1>> is 32768).          *)
(***************************************************************************)
EXTENDS Integers, Sequences, FiniteSets, TLC

(***************************************************************************)
(* Let(v, F) is F(v) with v evaluated once: the bound variable of a set    *)
(* constructor holds a value, where a LET definition or an operator        *)
(* argument may be evaluated again at every use.                           *)
(***************************************************************************)
Let(v, F(_)) == CHOOSE r \in {F(x) : x \in {v}} : TRUE
Let2(v, w, F(_, _)) == CHOOSE r \in {F(x, y) : x \in {v}, y \in {w}} : TRUE

\* The sequence f as an explicit tuple.
Tup(f) == f \o <<>>

(***************************************************************************)
(* Natural numbers of arbitrary size                                       *)
(***************************************************************************)
LimbBase == 32768
LimbBits == 15

\* a without its leading zero limbs.
BNorm(a0) ==
  Let(a0, LAMBDA a :
    Let({i \in 1..Len(a) : a[i] # 0}, LAMBDA nz :
      IF nz = {} THEN <<>>
      ELSE SubSeq(a, 1, CHOOSE i \in nz : \A j \in nz : j <= i)))

\* The natural number n (0 <= n < 2^31) as limbs.
BFromInt(n0) ==
  Let(n0, LAMBDA n :
    BNorm(<<n % LimbBase, (n \div LimbBase) % LimbBase,
            n \div (LimbBase * LimbBase)>>))

BLimb(a, i) == IF i >= 1 /\ i <= Len(a) THEN a[i] ELSE 0

\* a + b from limb i on, a and b values.
RECURSIVE BAddFrom(_, _, _, _)
BAddFrom(a, b, i0, carry0) ==
  Let2(i0, carry0, LAMBDA i, carry :
    IF i > Len(a) /\ i > Len(b)
    THEN IF carry = 0 THEN <<>> ELSE <<carry>>
    ELSE Let(BLimb(a, i) + BLimb(b, i) + carry, LAMBDA t :
           <<t % LimbBase>> \o BAddFrom(a, b, i + 1, t \div LimbBase)))

BAdd(a0, b0) == Let2(a0, b0, LAMBDA a, b : BAddFrom(a, b, 1, 0))

\* a - b for a >= b.
RECURSIVE BSubFrom(_, _, _, _)
BSubFrom(a, b, i0, borrow0) ==
  Let2(i0, borrow0, LAMBDA i, borrow :
    IF i > Len(a) THEN <<>>
    ELSE Let(BLimb(a, i) - BLimb(b, i) - borrow, LAMBDA t :
           IF t < 0
           THEN <<t + LimbBase>> \o BSubFrom(a, b, i + 1, 1)
           ELSE <<t>> \o BSubFrom(a, b, i + 1, 0)))

BSub(a0, b0) == Let2(a0, b0, LAMBDA a, b : BNorm(BSubFrom(a, b, 1, 0)))

\* -1, 0 or 1 as a < b, a = b or a > b.
BCmp(a0, b0) ==
  Let2(a0, b0, LAMBDA a, b :
    IF Len(a) < Len(b) THEN -1
    ELSE IF Len(a) > Len(b) THEN 1
    ELSE Let({i \in 1..Len(a) : a[i] # b[i]}, LAMBDA df :
           IF df = {} THEN 0
           ELSE Let(CHOOSE i \in df : \A j \in df : j <= i, LAMBDA top :
                  IF a[top] < b[top] THEN -1 ELSE 1)))

\* a * k for 0 <= k <= 2^15.
RECURSIVE BMulSmallFrom(_, _, _, _)
BMulSmallFrom(a, k, i0, carry0) ==
  Let2(i0, carry0, LAMBDA i, carry :
    IF i > Len(a)
    THEN IF carry = 0 THEN <<>> ELSE <<carry>>
    ELSE Let(a[i] * k + carry, LAMBDA t :
           <<t % LimbBase>> \o BMulSmallFrom(a, k, i + 1, t \div LimbBase)))

BMulSmall(a0, k0) ==
  Let2(a0, k0, LAMBDA a, k :
    IF k = 0 THEN <<>> ELSE BMulSmallFrom(a, k, 1, 0))

BZeros(n) == Tup([i \in 1..n |-> 0])

\* a * b, a and b values: the sum of the rows a * b[j] * 2^(15 (j - 1)).
RECURSIVE BMulFrom(_, _, _)
BMulFrom(a, b, j0) ==
  Let(j0, LAMBDA j :
    IF j > Len(b) THEN <<>>
    ELSE BAdd(IF b[j] = 0 THEN <<>> ELSE BZeros(j - 1) \o BMulSmall(a, b[j]),
              BMulFrom(a, b, j + 1)))

BMul(a0, b0) ==
  Let2(a0, b0, LAMBDA a, b :
    IF a = <<>> \/ b = <<>> THEN <<>> ELSE BMulFrom(a, b, 1))

\* 2^n for 0 <= n <= 30.
Pow2(n) == 2 ^ n

\* The number of bits of x, 0 <= x < 2^31.
SmallBitLen(x0) ==
  Let(x0, LAMBDA x :
    IF x = 0 THEN 0
    ELSE 1 + (CHOOSE n \in 0..30 : 2 ^ n <= x /\ x \div 2 < 2 ^ n))

BBitLen(a0) ==
  Let(a0, LAMBDA a :
    IF a = <<>> THEN 0 ELSE LimbBits * (Len(a) - 1) + SmallBitLen(a[Len(a)]))

\* a * 2^n.
BShl(a0, n0) ==
  Let2(a0, n0, LAMBDA a, n :
    IF a = <<>> THEN <<>>
    ELSE BZeros(n \div LimbBits) \o BMulSmall(a, Pow2(n % LimbBits)))

\* floor(a / 2^n).
BShr(a0, n0) ==
  Let2(a0, n0, LAMBDA a, n :
    Let2(n \div LimbBits, Pow2(n % LimbBits), LAMBDA q, lo :
      IF q >= Len(a) THEN <<>>
      ELSE BNorm(Tup([i \in 1..(Len(a) - q) |->
                   (a[i + q] \div lo)
                   + (BLimb(a, i + q + 1) % lo) * (LimbBase \div lo)]))))

\* Bit i (bit 0 is the lowest) of a.
BBit(a0, i0) ==
  Let2(a0, i0, LAMBDA a, i :
    (BLimb(a, (i \div LimbBits) + 1) \div Pow2(i % LimbBits)) % 2)

\* TRUE iff some bit below bit n of a is set.
BLowBits(a0, n0) ==
  Let2(a0, n0, LAMBDA a, n :
    \/ \E i \in 1..Len(a) : i <= n \div LimbBits /\ a[i] # 0
    \/ BLimb(a, (n \div LimbBits) + 1) % Pow2(n % LimbBits) # 0)

BIsOdd(a0) == Let(a0, LAMBDA a : a # <<>> /\ a[1] % 2 = 1)

\* 2 * a + bit.
BDbl(a0, bit) ==
  Let(a0, LAMBDA a :
    BNorm(Tup([i \in 1..(Len(a) + 1) |->
            (IF i <= Len(a) THEN (2 * a[i]) % LimbBase ELSE 0)
            + (IF i = 1 THEN bit ELSE a[i - 1] \div (LimbBase \div 2))])))

\* <<floor(a / k), a mod k>> for 0 < k <= 2^15, from the top limb down; a
\* and k values.
RECURSIVE BDivSmallFrom(_, _, _, _)
BDivSmallFrom(a, k, i0, rem0) ==
  Let2(i0, rem0, LAMBDA i, rem :
    IF i = 0 THEN <<<<>>, rem>>
    ELSE Let(rem * LimbBase + a[i], LAMBDA t :
           Let(BDivSmallFrom(a, k, i - 1, t % k), LAMBDA rest :
             <<rest[1] \o <<t \div k>>, rest[2]>>)))

BDivSmall(a0, k0) ==
  Let2(a0, k0, LAMBDA a, k :
    Let(BDivSmallFrom(a, k, Len(a), 0), LAMBDA r : <<BNorm(r[1]), r[2]>>))

(***************************************************************************)
(* IEEE-754 binary64 (Python float)                                        *)
(***************************************************************************)
MantBits == 53
MinExp   == -1074
MaxExp   == 971

Fin(s, m, e) == [k |-> "fin", s |-> s, m |-> m, e |-> e]
Inf(s)       == [k |-> "inf", s |-> s]
NaN          == [k |-> "nan"]
FZeroS(s)    == Fin(s, <<>>, MinExp)
\* What Python raises instead of returning a float: ZeroDivisionError.  An
\* operation on it gives it back, as the exception leaves the expression.
ZeroDiv      == [k |-> "zde"]

IsZero(a) == a.k = "fin" /\ a.m = <<>>
IsFinite(a) == a.k = "fin"
Xor(s, t) == (s + t) % 2

\* M >> sh rounded to nearest, ties to even; sticky tells whether bits
\* below M are set.  All arguments values.
ShiftRound(M, sh, sticky) ==
  Let(BShr(M, sh), LAMBDA q :
    IF /\ BBit(M, sh - 1) = 1
       /\ (sticky \/ BLowBits(M, sh - 1) \/ BIsOdd(q))
    THEN BAdd(q, <<1>>) ELSE q)

\* The float nearest to (-1)^s * (M + f) * 2^e, ties to even, where 0 <= f < 1
\* and sticky tells whether f > 0.  Overflow gives an infinity.
FRound(s0, M0, e0, sticky0) ==
  Let2(<<s0, sticky0>>, <<M0, e0>>, LAMBDA ss, Me :
    Let(BBitLen(Me[1]), LAMBDA L :
      Let(IF Me[2] + L - MantBits > MinExp THEN Me[2] + L - MantBits ELSE MinExp,
          LAMBDA et :
        IF L = 0 THEN FZeroS(ss[1])
        ELSE IF et <= Me[2]
        THEN IF et > MaxExp THEN Inf(ss[1])
             ELSE Fin(ss[1], BShl(Me[1], Me[2] - et), et)
        ELSE Let(ShiftRound(Me[1], et - Me[2], ss[2]), LAMBDA q :
               Let(BBitLen(q) > MantBits, LAMBDA cy :
                 IF (IF cy THEN et + 1 ELSE et) > MaxExp THEN Inf(ss[1])
                 ELSE Fin(ss[1], IF cy THEN BShr(q, 1) ELSE q,
                          IF cy THEN et + 1 ELSE et))))))

\* The float of the integer n, |n| < 2^31.
FInt(n0) ==
  Let(n0, LAMBDA n :
    IF n < 0 THEN FRound(1, BFromInt(-n), 0, FALSE)
    ELSE FRound(0, BFromInt(n), 0, FALSE))

\* |a| > |b| for finite floats, values.
MagGt(a, b) == \/ a.e > b.e
               \/ a.e = b.e /\ BCmp(a.m, b.m) = 1

\* a > b on floats (FALSE when either is a NaN).
FGt(a0, b0) ==
  Let2(a0, b0, LAMBDA a, b :
    IF a.k \in {"nan", "zde"} \/ b.k \in {"nan", "zde"} THEN FALSE
    ELSE IF IsZero(a) /\ IsZero(b) THEN FALSE
    ELSE IF a.s # b.s THEN a.s = 0
    ELSE IF a.k = "inf" \/ b.k = "inf"
    THEN IF a.s = 0 THEN a.k = "inf" /\ b.k = "fin"
         ELSE b.k = "inf" /\ a.k = "fin"
    ELSE IF a.s = 0 THEN MagGt(a, b) ELSE MagGt(b, a))

FLt(a, b) == FGt(b, a)
FEq(a0, b0) ==
  Let2(a0, b0, LAMBDA a, b :
    IF a.k \in {"nan", "zde"} \/ b.k \in {"nan", "zde"} THEN FALSE
    ELSE (IsZero(a) /\ IsZero(b)) \/ a = b)
FGe(a0, b0) == Let2(a0, b0, LAMBDA a, b : FGt(a, b) \/ FEq(a, b))
FLe(a, b) == FGe(b, a)

\* a * b
FMul(a0, b0) ==
  Let2(a0, b0, LAMBDA a, b :
    IF a.k = "zde" \/ b.k = "zde" THEN ZeroDiv
    ELSE IF a.k = "nan" \/ b.k = "nan" THEN NaN
    ELSE IF a.k = "inf" \/ b.k = "inf"
    THEN IF IsZero(a) \/ IsZero(b) THEN NaN ELSE Inf(Xor(a.s, b.s))
    ELSE FRound(Xor(a.s, b.s), BMul(a.m, b.m), a.e + b.e, FALSE))

\* One step of binary long division by d: from <<q, r>> with r < d to
\* <<2q + bit, 2r - bit * d>>, where bit tells whether 2r >= d.
DivStep(qr0, d) ==
  Let(qr0, LAMBDA qr :
    Let(BDbl(qr[2], 0), LAMBDA r2 :
      IF BCmp(r2, d) >= 0
      THEN <<BDbl(qr[1], 1), BSub(r2, d)>>
      ELSE <<BDbl(qr[1], 0), r2>>))

\* n steps of long division (n a multiple of 4): the quotient and remainder
\* of (q * d + r) * 2^n by d; d a value.
RECURSIVE LongDiv(_, _, _)
LongDiv(qr0, d, n0) ==
  Let2(qr0, n0, LAMBDA qr, n :
    IF n = 0 THEN qr
    ELSE LongDiv(DivStep(DivStep(DivStep(DivStep(qr, d), d), d), d), d, n - 4))

DivBits == 56

\* The quotient of the finite nonzero floats a and b (values).
DivFinite(a, b) ==
  Let2(MantBits - BBitLen(a.m), MantBits - BBitLen(b.m), LAMBDA ka, kb :
    Let2(BShl(a.m, ka), BShl(b.m, kb), LAMBDA ma, mb :
      Let(LongDiv(IF BCmp(ma, mb) >= 0 THEN <<<<1>>, BSub(ma, mb)>>
                  ELSE <<<<>>, ma>>, mb, DivBits), LAMBDA qr :
        FRound(Xor(a.s, b.s), qr[1],
               (a.e - ka) - (b.e - kb) - DivBits, qr[2] # <<>>))))

\* a / b; Python raises ZeroDivisionError when b is a zero.
FDiv(a0, b0) ==
  Let2(a0, b0, LAMBDA a, b :
    IF a.k = "zde" \/ b.k = "zde" \/ IsZero(b) THEN ZeroDiv
    ELSE IF a.k = "nan" \/ b.k = "nan" THEN NaN
    ELSE IF a.k = "inf"
    THEN IF b.k = "inf" THEN NaN ELSE Inf(Xor(a.s, b.s))
    ELSE IF b.k = "inf" \/ IsZero(a) THEN FZeroS(Xor(a.s, b.s))
    ELSE DivFinite(a, b))

\* Beyond this exponent gap the smaller operand of a sum only tells which
\* way the larger one is rounded.
AlignMax == 60

\* big + sml for finite nonzero floats (values) with |big| >= |sml|.
AddOrdered(big, sml) ==
  Let(big.e - sml.e, LAMBDA gap :
    IF gap > AlignMax
    THEN IF big.s = sml.s
         THEN FRound(big.s, BShl(big.m, 2), big.e - 2, TRUE)
         ELSE FRound(big.s, BSub(BShl(big.m, 2), <<1>>), big.e - 2, TRUE)
    ELSE Let(BShl(big.m, gap), LAMBDA M :
           IF big.s = sml.s
           THEN FRound(big.s, BAdd(M, sml.m), sml.e, FALSE)
           ELSE IF M = sml.m THEN FZeroS(0)
           ELSE FRound(big.s, BSub(M, sml.m), sml.e, FALSE)))

\* a + b
FAdd(a0, b0) ==
  Let2(a0, b0, LAMBDA a, b :
    IF a.k = "zde" \/ b.k = "zde" THEN ZeroDiv
    ELSE IF a.k = "nan" \/ b.k = "nan" THEN NaN
    ELSE IF a.k = "inf"
    THEN IF b.k = "inf" /\ b.s # a.s THEN NaN ELSE a
    ELSE IF b.k = "inf" THEN b
    ELSE IF IsZero(a) /\ IsZero(b)
    THEN FZeroS(IF a.s = 1 /\ b.s = 1 THEN 1 ELSE 0)
    ELSE IF IsZero(a) THEN b
    ELSE IF IsZero(b) THEN a
    ELSE IF MagGt(b, a) THEN AddOrdered(b, a) ELSE AddOrdered(a, b))

\* Python's max(a, b): b when b > a, else a.
PyMax(a0, b0) == Let2(a0, b0, LAMBDA a, b : IF FGt(b, a) THEN b ELSE a)

\* The float of the decimal literal n / 10^d (n and 10^d are exact floats,
\* so the correctly rounded quotient is the float the literal denotes).
FDec(n, d) == IF d = 0 THEN FInt(n) ELSE FDiv(FInt(n), FInt(10 ^ d))

(***************************************************************************)
(* Text: a string is a sequence of characters; a character is a Unicode    *)
(* code point.  Python's format(x, ".2f"): the decimal with two fraction   *)
(* digits nearest to the exact value of x, ties to even.                   *)
(***************************************************************************)
DigitCp(d) == 48 + d
MinusCp == 45
DotCp   == 46

\* One division by 10000: from <<a, digits>> to <<a div 10000, the four
\* digits of a mod 10000 followed by digits>>.
DecStep(st0) ==
  Let(st0, LAMBDA st :
    Let(BDivSmall(st[1], 10000), LAMBDA qr :
      <<qr[1], <<DigitCp(qr[2] \div 1000), DigitCp((qr[2] \div 100) % 10),
                 DigitCp((qr[2] \div 10) % 10), DigitCp(qr[2] % 10)>>
               \o st[2]>>))

RECURSIVE DecLoop(_)
DecLoop(st0) ==
  Let(st0, LAMBDA st :
    IF st[1] = <<>> THEN st[2] ELSE DecLoop(DecStep(st)))

\* The decimal digits of the natural number a, most significant first,
\* without leading zeros ("0" for zero).
DecDigits(a) ==
  Let(DecLoop(<<a, <<>>>>), LAMBDA d :
    Let({i \in 1..Len(d) : d[i] # DigitCp(0)}, LAMBDA nz :
      IF nz = {} THEN <<DigitCp(0)>>
      ELSE SubSeq(d, CHOOSE i \in nz : \A j \in nz : i <= j, Len(d))))

\* round-half-even(m * 2^e * 100) for a finite float a (a value).
Hundredths(a) ==
  Let(BMulSmall(a.m, 100), LAMBDA N :
    IF a.e >= 0 THEN BShl(N, a.e) ELSE ShiftRound(N, -a.e, FALSE))

\* f"{x:.2f}"
Fmt2(a0) ==
  Let(a0, LAMBDA a :
    IF a.k = "nan" THEN <<110, 97, 110>>
    ELSE IF a.k = "inf"
    THEN (IF a.s = 1 THEN <<MinusCp>> ELSE <<>>) \o <<105, 110, 102>>
    ELSE Let(BDivSmall(Hundredths(a), 100), LAMBDA qr :
           (IF a.s = 1 THEN <<MinusCp>> ELSE <<>>)
           \o DecDigits(qr[1])
           \o <<DotCp, DigitCp(qr[2] \div 10), DigitCp(qr[2] % 10)>>))

(***************************************************************************)
(* The material table and the parameter engine (src/app.py)                *)
(***************************************************************************)
\* MATERIALS as the module sets it
MaterialTable ==
  ("Copper"       :> [E |-> FInt(110000), yield |-> FInt(200)]) @@
  ("Carbon Steel" :> [E |-> FInt(210000), yield |-> FInt(250)]) @@
  ("Aluminium"    :> [E |-> FInt(70000),  yield |-> FInt(120)])

\* The literal 1e-6 of lines 40 and 51.
Eps == FDec(1, 6)

\* Py_MATH_PI, the double 0x400921FB54442D18 = 7074237752028440 * 2^-51.
PyPi == Fin(0, <<11544, 10376, 2029, 201>>, -51)

\* math.radians(x) = x * (pi / 180.0)
DegToRad == FDiv(PyPi, FInt(180))
Radians(x) == FMul(x, DegToRad)

None == [none |-> TRUE]

\* The lookup with a fallback entry, as MATERIALS.get(name, default) gives.
LookupPropsOrDefault(tbl, material_name) ==
  IF material_name \in DOMAIN tbl THEN tbl[material_name] ELSE tbl["Copper"]

\* props = MATERIALS[material_name]: the entry, or None for the KeyError.
LookupProps(tbl, material_name) ==
  IF material_name \in DOMAIN tbl THEN tbl[material_name] ELSE None

\* The wall thickness without the floor.
WallEffUnclamped(wall_mm) == wall_mm

\* wall_eff = max(wall_mm, 1e-6)
WallEff(wall_mm) == PyMax(wall_mm, Eps)

\* The quotient of line 42 upside down.
WallFactorInverted(od_mm, wall_eff) == FDiv(wall_eff, od_mm)

\* wf = od_mm / wall_eff
WallFactor(od_mm, wall_eff) == FDiv(od_mm, wall_eff)

\* max(clr, 1e-6), the divisor of the strain
ClrEff(clr) == PyMax(clr, Eps)

\* The stress from the whole wall thickness instead of half of it.
StressFullWall(E, wall_mm, clr) ==
  FDiv(FMul(E, FDiv(wall_mm, ClrEff(clr))), FInt(1000))

\* The stress with the strain upside down: the radius over the half wall.
StressInverted(E, wall_mm, clr) ==
  FDiv(FMul(E, FDiv(ClrEff(clr), FDiv(wall_mm, FInt(2)))), FInt(1000))

\* stress = E * ((wall_mm / 2.0) / max(clr, 1e-6)) / 1000.0
Stress(E, wall_mm, clr) ==
  FDiv(FMul(E, FDiv(FDiv(wall_mm, FInt(2)), ClrEff(clr))), FInt(1000))

\* The guard of line 52 as stress >= 0.
FosGuardNonNegative(sigma_y, stress0) ==
  Let(stress0, LAMBDA stress :
    IF FGe(stress, FInt(0)) THEN FDiv(sigma_y, stress) ELSE Inf(0))

\* fos = sigma_y / stress if stress > 0 else float("inf")
Fos(sigma_y, stress0) ==
  Let(stress0, LAMBDA stress :
    IF FGt(stress, FInt(0)) THEN FDiv(sigma_y, stress) ELSE Inf(0))

\* The local variables of compute_bend_parameters after line 52, each
\* computed once, in the order of lines 37-52.
Derive(props0, a0) ==
  Let2(props0, a0, LAMBDA props, a :
  Let(props.E,                         LAMBDA E :
  Let(props.yield,                     LAMBDA sigma_y :
  Let(WallEff(a.wall_mm),              LAMBDA wall_eff :
  Let(FMul(a.d_of_bend, a.od_mm),      LAMBDA clr :
  Let(WallFactor(a.od_mm, wall_eff),   LAMBDA wf :
  Let(FMul(wf, a.od_mm),               LAMBDA mbr :
  Let(Radians(a.angle_deg),            LAMBDA theta_rad :
  Let(FMul(clr, theta_rad),            LAMBDA arc_len :
  Let(FAdd(a.straight_mm, arc_len),    LAMBDA total_len :
  Let(Stress(E, a.wall_mm, clr),       LAMBDA stress :
  Let(Fos(sigma_y, stress),            LAMBDA fos :
    [E |-> E, sigma_y |-> sigma_y, wall_eff |-> wall_eff, clr |-> clr,
     wf |-> wf, mbr |-> mbr, theta_rad |-> theta_rad, arc_len |-> arc_len,
     total_len |-> total_len, stress |-> stress, fos |-> fos]))))))))))))

\* The divisions of lines 42, 51 and 52: one of them raised.
DivisionRaised(l) == l.wf = ZeroDiv \/ l.stress = ZeroDiv \/ l.fos = ZeroDiv

\* The dict of the return statement.
ResultDict(l) ==
  [wf |-> l.wf, clr |-> l.clr, mbr |-> l.mbr, arc_len |-> l.arc_len,
   total_len |-> l.total_len, stress |-> l.stress, fos |-> l.fos]

Args(material, od, wall, angle, straight, d) ==
  [od_mm |-> od, wall_mm |-> wall, angle_deg |-> angle,
   straight_mm |-> straight, d_of_bend |-> d, material_name |-> material]

(***************************************************************************)
(* The report (generate_pdf_report, src/app.py lines 65-113).  The texts   *)
(* are sequences of code points; a code point above 255 has no Latin-1     *)
(* byte.                                                                   *)
(***************************************************************************)
\* line 72: "Tube Bending Report"
TitleText ==
  <<84, 117, 98, 101, 32, 66, 101, 110, 100, 105, 110, 103, 32, 82, 101,
    112, 111, 114, 116>>

\* line 76: "Material          : "
LabelMaterial ==
  <<77, 97, 116, 101, 114, 105, 97, 108, 32, 32, 32, 32, 32, 32, 32, 32, 32,
    32, 58, 32>>

\* line 77: "Tube O.D.         : "
LabelOd ==
  <<84, 117, 98, 101, 32, 79, 46, 68, 46, 32, 32, 32, 32, 32, 32, 32, 32,
    32, 58, 32>>

\* line 78: "Wall Thickness    : "
LabelWall ==
  <<87, 97, 108, 108, 32, 84, 104, 105, 99, 107, 110, 101, 115, 115, 32, 32,
    32, 32, 58, 32>>

\* line 79: "Bend Angle        : "
LabelAngle ==
  <<66, 101, 110, 100, 32, 65, 110, 103, 108, 101, 32, 32, 32, 32, 32, 32,
    32, 32, 58, 32>>

\* line 80: "Straight Length   : "
LabelStraight ==
  <<83, 116, 114, 97, 105, 103, 104, 116, 32, 76, 101, 110, 103, 116, 104,
    32, 32, 32, 58, 32>>

\* line 81: ""D" of Bend (CLR/OD): "
LabelD ==
  <<34, 68, 34, 32, 111, 102, 32, 66, 101, 110, 100, 32, 40, 67, 76, 82, 47,
    79, 68, 41, 58, 32>>

\* line 85: "Calculated Values"
HeadingValues ==
  <<67, 97, 108, 99, 117, 108, 97, 116, 101, 100, 32, 86, 97, 108, 117, 101,
    115>>

\* line 87: "Wall Factor (WF = OD / t)         : "
LabelWf ==
  <<87, 97, 108, 108, 32, 70, 97, 99, 116, 111, 114, 32, 40, 87, 70, 32, 61,
    32, 79, 68, 32, 47, 32, 116, 41, 32, 32, 32, 32, 32, 32, 32, 32, 32, 58,
    32>>

\* line 88: "Center-Line Radius (CLR)          : "
LabelClr ==
  <<67, 101, 110, 116, 101, 114, 45, 76, 105, 110, 101, 32, 82, 97, 100,
    105, 117, 115, 32, 40, 67, 76, 82, 41, 32, 32, 32, 32, 32, 32, 32, 32,
    32, 32, 58, 32>>

\* line 89: "Minimum Bend Radius (WF U+00D7 OD)     : "
LabelMbr ==
  <<77, 105, 110, 105, 109, 117, 109, 32, 66, 101, 110, 100, 32, 82, 97,
    100, 105, 117, 115, 32, 40, 87, 70, 32, 215, 32, 79, 68, 41, 32, 32, 32,
    32, 32, 58, 32>>

\* line 90: "Bend Arc Length                   : "
LabelArc ==
  <<66, 101, 110, 100, 32, 65, 114, 99, 32, 76, 101, 110, 103, 116, 104, 32,
    32, 32, 32, 32, 32, 32, 32, 32, 32, 32, 32, 32, 32, 32, 32, 32, 32, 32,
    58, 32>>

\* line 91: "Approx. Total Tube Length         : "
LabelTotal ==
  <<65, 112, 112, 114, 111, 120, 46, 32, 84, 111, 116, 97, 108, 32, 84, 117,
    98, 101, 32, 76, 101, 110, 103, 116, 104, 32, 32, 32, 32, 32, 32, 32,
    32, 32, 58, 32>>

\* line 92: "Simplified Outer-Fibre Stress     : "
LabelStress ==
  <<83, 105, 109, 112, 108, 105, 102, 105, 101, 100, 32, 79, 117, 116, 101,
    114, 45, 70, 105, 98, 114, 101, 32, 83, 116, 114, 101, 115, 115, 32, 32,
    32, 32, 32, 58, 32>>

\* line 93: "Factor of Safety vs Yield (FoS)   : "
LabelFos ==
  <<70, 97, 99, 116, 111, 114, 32, 111, 102, 32, 83, 97, 102, 101, 116, 121,
    32, 118, 115, 32, 89, 105, 101, 108, 100, 32, 40, 70, 111, 83, 41, 32,
    32, 32, 58, 32>>

\* line 97: "Key Formulas (from Bend Manual concepts)"
HeadingFormulas ==
  <<75, 101, 121, 32, 70, 111, 114, 109, 117, 108, 97, 115, 32, 40, 102,
    114, 111, 109, 32, 66, 101, 110, 100, 32, 77, 97, 110, 117, 97, 108, 32,
    99, 111, 110, 99, 101, 112, 116, 115, 41>>

\* The text of the multi_cell call, lines 99-110 (\n is the line feed, 10):
\*   Wall Factor (WF) = O.D. / Wall
\*   "D" of Bend      = CLR / O.D.
\*   CLR              = D U+00D7 O.D.
\*   Bend Arc Length  = CLR U+00D7 U+03B8(rad)
\*   Total Length     = Straight Length + Bend Arc Length
\*   Outer-fibre strain U+2248 (t/2) / CLR U+2192 Stress U+2248 E U+00D7 strain
\*   
\*   NOTE: Stress and FoS here are simplified estimates for study / comparison, not for final certification.
FormulaBlock ==
  <<87, 97, 108, 108, 32, 70, 97, 99, 116, 111, 114, 32, 40, 87, 70, 41, 32,
    61, 32, 79, 46, 68, 46, 32, 47, 32, 87, 97, 108, 108, 10, 34, 68, 34,
    32, 111, 102, 32, 66, 101, 110, 100, 32, 32, 32, 32, 32, 32, 61, 32, 67,
    76, 82, 32, 47, 32, 79, 46, 68, 46, 10, 67, 76, 82, 32, 32, 32, 32, 32,
    32, 32, 32, 32, 32, 32, 32, 32, 32, 61, 32, 68, 32, 215, 32, 79, 46, 68,
    46, 10, 66, 101, 110, 100, 32, 65, 114, 99, 32, 76, 101, 110, 103, 116,
    104, 32, 32, 61, 32, 67, 76, 82, 32, 215, 32, 952, 40, 114, 97, 100, 41,
    10, 84, 111, 116, 97, 108, 32, 76, 101, 110, 103, 116, 104, 32, 32, 32,
    32, 32, 61, 32, 83, 116, 114, 97, 105, 103, 104, 116, 32, 76, 101, 110,
    103, 116, 104, 32, 43, 32, 66, 101, 110, 100, 32, 65, 114, 99, 32, 76,
    101, 110, 103, 116, 104, 10, 79, 117, 116, 101, 114, 45, 102, 105, 98,
    114, 101, 32, 115, 116, 114, 97, 105, 110, 32, 8776, 32, 40, 116, 47,
    50, 41, 32, 47, 32, 67, 76, 82, 32, 8594, 32, 83, 116, 114, 101, 115,
    115, 32, 8776, 32, 69, 32, 215, 32, 115, 116, 114, 97, 105, 110, 10, 10,
    78, 79, 84, 69, 58, 32, 83, 116, 114, 101, 115, 115, 32, 97, 110, 100,
    32, 70, 111, 83, 32, 104, 101, 114, 101, 32, 97, 114, 101, 32, 115, 105,
    109, 112, 108, 105, 102, 105, 101, 100, 32, 101, 115, 116, 105, 109, 97,
    116, 101, 115, 32, 102, 111, 114, 32, 115, 116, 117, 100, 121, 32, 47,
    32, 99, 111, 109, 112, 97, 114, 105, 115, 111, 110, 44, 32, 110, 111,
    116, 32, 102, 111, 114, 32, 102, 105, 110, 97, 108, 32, 99, 101, 114,
    116, 105, 102, 105, 99, 97, 116, 105, 111, 110, 46>>

\* lines 77, 78, 80, 88-91: " mm"
UnitMm == <<32, 109, 109>>

\* line 79: " U+00B0"
UnitDeg == <<32, 176>>

\* line 92: " MPa"
UnitMPa == <<32, 77, 80, 97>>

\* The characters of the material names (str, lines 28-30 and 76).
Chars ==
  ("Copper" :>
     <<67, 111, 112, 112, 101, 114>>) @@
  ("Carbon Steel" :>
     <<67, 97, 114, 98, 111, 110, 32, 83, 116, 101, 101, 108>>) @@
  ("Aluminium" :>
     <<65, 108, 117, 109, 105, 110, 105, 117, 109>>) @@
  ("Unobtainium" :>
     <<85, 110, 111, 98, 116, 97, 105, 110, 105, 117, 109>>)
\* The dict inputs_dict of lines 280-287, from the widget values.
InputsDict(a) ==
  [material |-> a.material_name, od |-> a.od_mm, wall |-> a.wall_mm,
   angle |-> a.angle_deg, straight |-> a.straight_mm,
   d_of_bend |-> a.d_of_bend]

\* The cells of lines 76-81.
InputCells(inputs) ==
  <<LabelMaterial \o Chars[inputs.material],
    LabelOd       \o Fmt2(inputs.od)        \o UnitMm,
    LabelWall     \o Fmt2(inputs.wall)      \o UnitMm,
    LabelAngle    \o Fmt2(inputs.angle)     \o UnitDeg,
    LabelStraight \o Fmt2(inputs.straight)  \o UnitMm,
    LabelD        \o Fmt2(inputs.d_of_bend)>>

\* The cells of lines 87-93.
ResultCells(res) ==
  <<LabelWf     \o Fmt2(res.wf),
    LabelClr    \o Fmt2(res.clr)       \o UnitMm,
    LabelMbr    \o Fmt2(res.mbr)       \o UnitMm,
    LabelArc    \o Fmt2(res.arc_len)   \o UnitMm,
    LabelTotal  \o Fmt2(res.total_len) \o UnitMm,
    LabelStress \o Fmt2(res.stress)    \o UnitMPa,
    LabelFos    \o Fmt2(res.fos)>>

\* The texts written to the page by lines 72-110, in the order of the calls.
ReportCells(inputs, res) ==
  <<TitleText>> \o InputCells(inputs) \o <<HeadingValues>> \o ResultCells(res)
  \o <<HeadingFormulas, FormulaBlock>>

\* The largest code point with a Latin-1 byte.
Latin1Max == 255
\* "?", what the error handler "replace" puts for a character without one.
ReplacementCp == 63

\* str.encode("latin-1") can encode s.
Latin1Encodable(s) == \A j \in 1..Len(s) : s[j] <= Latin1Max

\* s.encode("latin-1", "replace")
EncodeReplace(s) ==
  Tup([j \in 1..Len(s) |-> IF s[j] <= Latin1Max THEN s[j] ELSE ReplacementCp])

(***************************************************************************)
(* Inputs.  A caller draws each argument from the first Num.. entries of   *)
(* a list of sample values.                                                *)
(***************************************************************************)
Huge  == FRound(0, <<1>>, 1023, FALSE)                           \* 2^1023
WallA == FRound(0, BSub(BShl(<<1>>, 53), <<2>>), -52, FALSE)     \* 2 - 2^-51
WallB == FRound(0, BSub(BShl(<<1>>, 53), <<1>>), -52, FALSE)     \* 2 - 2^-52

MaterialNames == {"Copper", "Carbon Steel", "Aluminium", "Unobtainium"}

OdSamples       == <<FInt(10), Huge, FInt(-10), FInt(1), FInt(0)>>
WallSamples     == <<FInt(1), FInt(0), FInt(-1), FDec(1, 1), Huge, FInt(2)>>
AngleSamples    == <<FInt(90), FInt(360), FInt(1), FInt(180)>>
StraightSamples == <<FInt(500), FInt(0), FInt(1)>>
DSamples        == <<FInt(3), FInt(0), FInt(-1), FInt(2), FDec(25, 1)>>

NumOd       == 3
NumWall     == 4
NumAngle    == 2
NumStraight == 2
NumD        == 3

First(samples, n) == {samples[i] : i \in 1..n}

EngineArgs ==
  {Args(m, od, w, an, st, d) :
     m \in MaterialNames, od \in First(OdSamples, NumOd),
     w \in First(WallSamples, NumWall), an \in First(AngleSamples, NumAngle),
     st \in First(StraightSamples, NumStraight), d \in First(DSamples, NumD)}

(***************************************************************************)
(* State                                                                   *)
(***************************************************************************)
VARIABLES
  MATERIALS,  \* the module-level table
  pc,         \* where the current run is
  args,       \* the arguments of the current call of the engine
  props,      \* the looked-up table entry, None before the lookup
  locals,     \* the locals computed by lines 40-52, None before
  results,    \* the returned dict, None before the return
  raised,     \* the exception the run ended in, "none" otherwise
  pdf,        \* the texts written to the FPDF page so far, None before
  doc,        \* the bytes generate_pdf_report returned, None before
  prev        \* an earlier call kept for comparison: its args and outcome

vars == <<MATERIALS, pc, args, props, locals, results, raised, pdf, doc, prev>>

Init ==
  /\ MATERIALS = MaterialTable
  /\ pc = "idle"
  /\ args = None
  /\ props = None
  /\ locals = None
  /\ results = None
  /\ raised = "none"
  /\ pdf = None
  /\ doc = None
  /\ prev = None

\* A caller enters compute_bend_parameters with arguments a.
Enter(a) ==
  /\ pc = "idle"
  /\ pc' = "lookup"
  /\ args' = a
  /\ props' = None
  /\ locals' = None
  /\ results' = None
  /\ raised' = "none"
  /\ UNCHANGED <<MATERIALS, pdf, doc, prev>>

CallEngine == pc = "idle" /\ \E a \in EngineArgs : Enter(a)

\* Lines 36-38 with a fallback entry written to the table for a missing key.
LookupWithDefault ==
  /\ pc = "lookup"
  /\ IF args.material_name \in DOMAIN MATERIALS
     THEN /\ props' = MATERIALS[args.material_name]
          /\ MATERIALS' = MATERIALS
     ELSE /\ props' = MATERIALS["Copper"]
          /\ MATERIALS' = (args.material_name :> MATERIALS["Copper"]) @@ MATERIALS
  /\ pc' = "derive"
  /\ UNCHANGED <<args, locals, results, raised, pdf, doc, prev>>

\* Lines 36-38: props = MATERIALS[material_name]; a missing key raises.
Lookup ==
  /\ pc = "lookup"
  /\ \E p \in {LookupProps(MATERIALS, args.material_name)} :
         IF p = None
         THEN /\ pc' = "raised"
              /\ raised' = "KeyError"
              /\ props' = props
         ELSE /\ pc' = "derive"
              /\ raised' = raised
              /\ props' = p
  /\ UNCHANGED <<MATERIALS, args, locals, results, pdf, doc, prev>>

\* Lines 40-62: the derived quantities and the returned dict.
Compute ==
  /\ pc = "derive"
  /\ \E l \in {Derive(props, args)} :
         IF DivisionRaised(l)
         THEN /\ pc' = "raised"
              /\ raised' = "ZeroDivisionError"
              /\ locals' = locals
              /\ results' = results
         ELSE /\ pc' = "returned"
              /\ raised' = raised
              /\ locals' = l
              /\ results' = ResultDict(l)
  /\ UNCHANGED <<MATERIALS, args, props, pdf, doc, prev>>

\* The frames of the run are gone: back to the state between runs.
Forget ==
  /\ pc' = "idle"
  /\ args' = None
  /\ props' = None
  /\ locals' = None
  /\ results' = None
  /\ raised' = "none"
  /\ pdf' = None
  /\ doc' = None

\* The caller is done with the run.
Done ==
  /\ pc \in {"returned", "raised", "reported"}
  /\ Forget
  /\ UNCHANGED <<MATERIALS, prev>>

Next == CallEngine \/ Lookup \/ Compute \/ Done

Spec == Init /\ [][Next]_vars

(***************************************************************************)
(* Calls in sequence: the caller may keep the arguments and the outcome of *)
(* a finished call, to compare a later call with it.                       *)
(***************************************************************************)
HistMaterials == {"Copper", "Unobtainium"}
HistOds       == {FInt(10)}
HistDs        == {FInt(2)}
HistWallSamples ==
  <<FInt(1), FInt(2), WallA, WallB, FInt(0), FDec(1, 1), FInt(-1)>>
NumHistWall   == 5

HistoryArgs ==
  {Args(m, od, w, FInt(90), FInt(500), d) :
     m \in HistMaterials, od \in HistOds,
     w \in First(HistWallSamples, NumHistWall), d \in HistDs}

CallHistory == pc = "idle" /\ \E a \in HistoryArgs : Enter(a)

Remember ==
  /\ pc \in {"returned", "raised"}
  /\ prev' = [args |-> args, results |-> results, raised |-> raised]
  /\ Forget
  /\ UNCHANGED MATERIALS

NextHistory == CallHistory \/ Lookup \/ Compute \/ Done \/ Remember

SpecHistory == Init /\ [][NextHistory]_vars

(***************************************************************************)
(* The application: a run of the script with the values of the form        *)
(* (lines 153-188), then the report of lines 280-289; or a caller of the   *)
(* two functions with values of its own.                                   *)
(***************************************************************************)
\* The options of the selectbox of lines 178-183.
DOptions == <<FInt(2), FDec(25, 1), FInt(3), FInt(4), FInt(5)>>

\* The widgets of lines 155-183 can give the values a.
FormCanSupply(a) ==
  /\ a.material_name \in DOMAIN MaterialTable
  /\ FGe(a.od_mm, FInt(1))
  /\ FGe(a.wall_mm, FDec(1, 1))
  /\ FGe(a.angle_deg, FInt(1)) /\ FLe(a.angle_deg, FInt(180))
  /\ FGe(a.straight_mm, FInt(1))
  /\ \E i \in 1..Len(DOptions) : a.d_of_bend = DOptions[i]

AppOdSamples       == <<FInt(10), FInt(1), FDec(254, 1), FInt(0)>>
AppWallSamples     == <<FInt(1), FInt(0), FDec(1, 1), FInt(-1), FInt(2)>>
AppAngleSamples    == <<FInt(90), FInt(180), FInt(1), FInt(360)>>
AppStraightSamples == <<FInt(500), FInt(1), FInt(0)>>

NumAppOd       == 2
NumAppWall     == 3
NumAppAngle    == 2
NumAppStraight == 1

AppArgs ==
  {Args(m, od, w, an, st, d) :
     m \in MaterialNames, od \in First(AppOdSamples, NumAppOd),
     w \in First(AppWallSamples, NumAppWall),
     an \in First(AppAngleSamples, NumAppAngle),
     st \in First(AppStraightSamples, NumAppStraight),
     d \in First(DOptions, Len(DOptions))}

\* Lines 153-188: the script runs with the values of the widgets.
FormSubmit ==
  pc = "idle" /\ \E a \in AppArgs : FormCanSupply(a) /\ Enter(a)

\* A caller with values of its own.
CallDirect == pc = "idle" /\ \E a \in AppArgs : Enter(a)

\* Lines 280-289 and 67-110: the report is entered with inputs_dict and
\* results, and the texts are written to the page.
Render ==
  /\ pc = "returned"
  /\ pdf' = ReportCells(InputsDict(args), results)
  /\ pc' = "output"
  /\ UNCHANGED <<MATERIALS, args, props, locals, results, raised, doc, prev>>

\* Lines 112-113: pdf.output(dest="S") closes the document, which encodes
\* the page as Latin-1 and raises UnicodeEncodeError on a character that has
\* no Latin-1 byte; the error handler "replace" of line 112 is applied to
\* the string output returns.
Output ==
  /\ pc = "output"
  /\ IF \E i \in 1..Len(pdf) : ~Latin1Encodable(pdf[i])
     THEN /\ pc' = "raised"
          /\ raised' = "UnicodeEncodeError"
          /\ doc' = doc
     ELSE /\ pc' = "reported"
          /\ raised' = raised
          /\ doc' = Tup([i \in 1..Len(pdf) |-> EncodeReplace(pdf[i])])
  /\ UNCHANGED <<MATERIALS, args, props, locals, results, pdf, prev>>

NextReport ==
  FormSubmit \/ CallDirect \/ Lookup \/ Compute \/ Render \/ Output \/ Done

SpecReport == Init /\ [][NextReport]_vars

(***************************************************************************)
(* Claims about the parameter engine (specification Spec)                  *)
(***************************************************************************)
KnownMaterial == args # None /\ args.material_name \in DOMAIN MaterialTable

ResultFields == {"wf", "clr", "mbr", "arc_len", "total_len", "stress", "fos"}

\* The quotient of IEEE-754, where a division by zero gives an infinity (a
\* NaN for 0 / 0) and is no error: the arithmetic of the reference formulas.
IeeeDiv(a0, b0) ==
  Let2(a0, b0, LAMBDA a, b :
    IF IsFinite(a) /\ IsFinite(b) /\ IsZero(b)
    THEN IF IsZero(a) THEN NaN ELSE Inf(Xor(a.s, b.s))
    ELSE FDiv(a, b))

\* The larger of a and b.
RefMax(a, b) == IF FGe(a, b) THEN a ELSE b

\* The domain of C1.
C1Domain(a) ==
  /\ a.material_name \in DOMAIN MaterialTable
  /\ FGt(a.od_mm, FInt(0))
  /\ FGt(a.wall_mm, FInt(0))
  /\ FGt(a.angle_deg, FInt(0)) /\ FLe(a.angle_deg, FInt(360))
  /\ FGe(a.straight_mm, FInt(0))
  /\ FGt(a.d_of_bend, FInt(0))

\* The seven values of the reference formulas, in double arithmetic.
C1Reference(a) ==
  Let(IeeeDiv(a.od_mm, RefMax(a.wall_mm, FDec(1, 6))), LAMBDA wf :
  Let(FMul(a.d_of_bend, a.od_mm), LAMBDA clr :
  Let(FMul(clr, FMul(a.angle_deg, IeeeDiv(PyPi, FInt(180)))), LAMBDA arc_len :
  Let(IeeeDiv(FMul(MaterialTable[a.material_name].E,
                   IeeeDiv(IeeeDiv(a.wall_mm, FInt(2)),
                           RefMax(clr, FDec(1, 6)))),
              FInt(1000)), LAMBDA stress :
    [wf |-> wf, clr |-> clr, mbr |-> FMul(wf, a.od_mm), arc_len |-> arc_len,
     total_len |-> FAdd(a.straight_mm, arc_len), stress |-> stress,
     fos |-> IeeeDiv(MaterialTable[a.material_name].yield, stress)]))))

\* The end-to-end example: its arguments and the values the claim gives.
ExampleArgs ==
  Args("Carbon Steel", FInt(10), FInt(1), FInt(90), FInt(500), FInt(3))

ExampleResults ==
  [wf |-> FInt(10), clr |-> FInt(30), mbr |-> FInt(100),
   arc_len |-> FMul(FInt(30), IeeeDiv(PyPi, FInt(2))),
   total_len |-> FAdd(FInt(500), FMul(FInt(30), IeeeDiv(PyPi, FInt(2)))),
   stress |-> FDec(35, 1),
   fos |-> IeeeDiv(FInt(250), FDec(35, 1))]

\* "71.43"
Text7143 == <<55, 49, 46, 52, 51>>

\* C1: for a material of the table and od > 0, wall > 0, angle in (0, 360],
\* straight >= 0 and D > 0 the call returns, and returns the seven values of
\* the reference formulas; for the end-to-end example these are wf = 10,
\* clr = 30, mbr = 100, arc_len = 30 * (pi / 2), total_len = 500 + arc_len,
\* stress = 3.5 and fos = 250 / 3.5, which is 71.43 to two decimals.
C1_ReferenceFormulas ==
  (args # None /\ C1Domain(args)) =>
    /\ pc # "raised"
    /\ pc = "returned" =>
         /\ results = C1Reference(args)
         /\ args = ExampleArgs =>
              results = ExampleResults /\ Fmt2(results.fos) = Text7143

C1_Witness ==
  /\ pc = "returned"
  /\ args = ExampleArgs
  /\ results.stress = FDec(35, 1)
  /\ Fmt2(results.fos) = Text7143

\* C2: a call with a material name that is no key of the table ends in the
\* KeyError of the lookup; it never gets an entry of the table, never
\* computes a derived quantity and never returns a result.
C2_UnknownMaterialFails ==
  (args # None /\ args.material_name \notin DOMAIN MaterialTable) =>
    /\ pc \in {"lookup", "raised"}
    /\ pc = "raised" => raised = "KeyError"
    /\ props = None
    /\ locals = None
    /\ results = None

C2_Witness ==
  /\ pc = "raised"
  /\ raised = "KeyError"
  /\ args.material_name = "Unobtainium"
  /\ results = None

\* 2^996, about 6.7e299
C3OdLimit == FRound(0, <<1>>, 996, FALSE)

\* C3 as stated: for a known material every call returns all seven fields
\* and none ends in a division error, and with wall = 0 and od > 0 the wall
\* factor is od / 1e-6, a finite value.
C3_Original ==
  KnownMaterial =>
    /\ pc # "raised"
    /\ pc = "returned" =>
         /\ DOMAIN results = ResultFields
         /\ (IsZero(args.wall_mm) /\ FGt(args.od_mm, FInt(0))) =>
              /\ results.wf = FDiv(args.od_mm, FDec(1, 6))
              /\ IsFinite(results.wf)

\* C3 (amended): for a known material every call returns all seven fields
\* and none ends in a division error, both divisors being at least 1e-6;
\* with wall = 0 and od > 0 the wall factor is od / 1e-6, which is finite
\* for od up to 2^996.
C3_TotalForKnownMaterial ==
  KnownMaterial =>
    /\ pc # "raised"
    /\ pc = "returned" =>
         /\ DOMAIN results = ResultFields
         /\ FGe(locals.wall_eff, FDec(1, 6))
         /\ (IsZero(args.wall_mm) /\ FGt(args.od_mm, FInt(0))) =>
              /\ results.wf = FDiv(args.od_mm, FDec(1, 6))
              /\ FLe(args.od_mm, C3OdLimit) => IsFinite(results.wf)

C3_Witness ==
  /\ pc = "returned"
  /\ IsZero(args.wall_mm)
  /\ IsZero(args.d_of_bend)
  /\ FGt(args.od_mm, FInt(0)) /\ FLe(args.od_mm, C3OdLimit)
  /\ IsFinite(results.wf)

\* C4: when the stress is not strictly positive the returned factor of
\* safety is +infinity, the division yield / stress is made only for a
\* stress > 0, and no call ends in a division error.
C4_NonPositiveStressGivesInf ==
  /\ raised # "ZeroDivisionError"
  /\ pc = "returned" =>
       IF FGt(results.stress, FInt(0))
       THEN results.fos = FDiv(locals.sigma_y, results.stress)
       ELSE results.fos = Inf(0)

C4_Witness ==
  /\ pc = "returned"
  /\ IsZero(args.wall_mm)
  /\ IsZero(results.stress)
  /\ results.fos = Inf(0)

(***************************************************************************)
(* Claims about calls in sequence (specification SpecHistory)              *)
(***************************************************************************)
\* The kept call and the current one both returned, with the same material,
\* od and D (and angle and straight length).
SameButWall ==
  /\ prev # None
  /\ prev.results # None
  /\ pc = "returned"
  /\ prev.args.material_name = args.material_name
  /\ prev.args.od_mm = args.od_mm
  /\ prev.args.d_of_bend = args.d_of_bend
  /\ prev.args.angle_deg = args.angle_deg
  /\ prev.args.straight_mm = args.straight_mm

\* wall1 < wall2 with clr > epsilon, wall1 the wall of the kept call.
C5Case ==
  /\ SameButWall
  /\ FGt(results.clr, FDec(1, 6))
  /\ IsFinite(prev.args.wall_mm) /\ IsFinite(args.wall_mm)
  /\ FLt(prev.args.wall_mm, args.wall_mm)

\* C5 as stated: with material, od and D fixed and clr > epsilon, for all
\* wall1 < wall2 the stress of wall1 is strictly greater than that of wall2.
C5_Original == C5Case => FGt(prev.results.stress, results.stress)

\* C5 (amended): with material, od and D fixed and clr > epsilon, for all
\* finite wall1 < wall2 the stress of wall1 is at most that of wall2: the
\* stress grows with the wall thickness.
C5_StressGrowsWithWall == C5Case => FLe(prev.results.stress, results.stress)

C5_Witness == C5Case /\ FLt(prev.results.stress, results.stress)

\* epsilon < wall1 < wall2 with od > 0, wall1 the wall of the kept call.
C6Case ==
  /\ SameButWall
  /\ FGt(args.od_mm, FInt(0)) /\ IsFinite(args.od_mm)
  /\ IsFinite(prev.args.wall_mm) /\ IsFinite(args.wall_mm)
  /\ FGt(prev.args.wall_mm, FDec(1, 6))
  /\ FLt(prev.args.wall_mm, args.wall_mm)

\* C6 as stated: with od > 0 and the other inputs fixed, for all
\* epsilon < wall1 < wall2 the wall factor of wall1 is strictly greater than
\* that of wall2.
C6_Original == C6Case => FGt(prev.results.wf, results.wf)

\* C6 (amended): with od > 0 and the other inputs fixed, for all finite
\* epsilon < wall1 < wall2 the wall factor of wall1 is at least that of
\* wall2.
C6_WallFactorFallsWithWall == C6Case => FGe(prev.results.wf, results.wf)

\* Two walls one unit in the last place apart with the same wall factor.
C6_Witness ==
  /\ C6Case
  /\ prev.args.wall_mm = WallA /\ args.wall_mm = WallB
  /\ prev.results.wf = results.wf

\* C7: after any earlier calls, the table still has its initial content, and
\* a call with the arguments of a kept call ends as the kept call did: with
\* the same result, or with the same exception.
C7_DependsOnlyOnArguments ==
  /\ MATERIALS = MaterialTable
  /\ (prev # None /\ pc \in {"returned", "raised"} /\ prev.args = args) =>
       prev.results = results /\ prev.raised = raised

C7_Witness ==
  /\ prev # None
  /\ pc = "returned"
  /\ prev.args = args
  /\ prev.results = results
  /\ MATERIALS = MaterialTable

(***************************************************************************)
(* Claims about the report and the application (specification SpecReport)  *)
(***************************************************************************)
\* The input fields and the result fields in the order of the claim, each
\* with the label and the unit of its line.
InputOrder  == <<"od", "wall", "angle", "straight", "d_of_bend">>
InputLabel  == <<LabelOd, LabelWall, LabelAngle, LabelStraight, LabelD>>
InputUnit   == <<UnitMm, UnitMm, UnitDeg, UnitMm, <<>>>>
ResultOrder ==
  <<"wf", "clr", "mbr", "arc_len", "total_len", "stress", "fos">>
ResultLabel ==
  <<LabelWf, LabelClr, LabelMbr, LabelArc, LabelTotal, LabelStress, LabelFos>>
ResultUnit  == <<<<>>, UnitMm, UnitMm, UnitMm, UnitMm, UnitMPa, <<>>>>

\* sub occurs in s.
Contains(s, sub) ==
  \E i \in 0..(Len(s) - Len(sub)) : SubSeq(s, i + 1, i + Len(sub)) = sub

\* "Wall Factor (WF = OD / t)         : 10.00"
ExampleWfLine ==
  <<87, 97, 108, 108, 32, 70, 97, 99, 116, 111, 114, 32, 40, 87, 70, 32, 61,
    32, 79, 68, 32, 47, 32, 116, 41, 32, 32, 32, 32, 32, 32, 32, 32, 32, 58,
    32, 49, 48, 46, 48, 48>>

\* "Factor of Safety vs Yield (FoS)   : 71.43"
ExampleFosLine ==
  <<70, 97, 99, 116, 111, 114, 32, 111, 102, 32, 83, 97, 102, 101, 116, 121,
    32, 118, 115, 32, 89, 105, 101, 108, 100, 32, 40, 70, 111, 83, 41, 32,
    32, 32, 58, 32, 55, 49, 46, 52, 51>>

\* The texts of the claim's layout for the current run: the title, the
\* material and the five numeric input fields, the seven result fields under
\* their heading, and the formula block under its heading; every numeric
\* line is its label, the value of its own field with two decimals, and its
\* unit.
C8Layout ==
  <<TitleText, LabelMaterial \o Chars[args.material_name]>>
  \o [i \in 1..5 |->
        InputLabel[i] \o Fmt2(InputsDict(args)[InputOrder[i]]) \o InputUnit[i]]
  \o <<HeadingValues>>
  \o [i \in 1..7 |->
        ResultLabel[i] \o Fmt2(results[ResultOrder[i]]) \o ResultUnit[i]]
  \o <<HeadingFormulas, FormulaBlock>>

\* C8: a call of generate_pdf_report ends with a returned document, and the
\* document holds the title, the six input fields, the seven result fields
\* and the formula block, in this order and each once, every numeric field
\* being the value of its own field with two decimals; for the end-to-end
\* example the output contains the two texts the claim quotes.
C8_OutputLayout ==
  (pdf # None /\ pc \in {"raised", "reported"}) =>
    /\ pc = "reported"
    /\ Len(doc) = 17
    /\ \A i \in 1..17 : doc[i] = EncodeReplace(C8Layout[i])
    /\ args = ExampleArgs =>
         Contains(doc[9], ExampleWfLine) /\ Contains(doc[15], ExampleFosLine)

\* C9: once generate_pdf_report is entered with the inputs and the results
\* of a returned call it raises nothing and returns bytes, in which every
\* character without a Latin-1 byte is replaced.
C9_ReportNeverFails ==
  /\ pdf # None => pc \in {"output", "reported"}
  /\ pc = "reported" =>
       /\ Len(doc) = Len(pdf)
       /\ \A i \in 1..Len(doc) : doc[i] = EncodeReplace(pdf[i])

\* C10: a run with values the form can supply never ends in an exception;
\* its lookup succeeds, and once the engine has computed, wall_eff = wall,
\* clr = D * od >= 2 > 1e-6, stress > 0 and the factor of safety is finite
\* and > 0.
C10_FormRunNeverFails ==
  (args # None /\ FormCanSupply(args)) =>
    /\ pc # "raised"
    /\ pc # "lookup" => props = MaterialTable[args.material_name]
    /\ locals # None =>
         /\ locals.wall_eff = args.wall_mm
         /\ locals.clr = FMul(args.d_of_bend, args.od_mm)
         /\ FGe(locals.clr, FInt(2))
         /\ FGt(locals.clr, FDec(1, 6))
         /\ FGt(results.stress, FInt(0))
         /\ IsFinite(results.fos)
         /\ FGt(results.fos, FInt(0))

====
